---- MODULE Spec2Model ----
(***************************************************************************)
(* Model of src/src/main.rs: the GF(2^128) multiply-by-public-byte gadget  *)
(* (mul_x, cxor, gfmul_by_public_byte) and the matrix-hash session         *)
(* lattice_circuit (H = A . I).                                            *)
(*                                                                         *)
(* A 64-bit Word is the set of its set bit positions (a subset of 0..63);  *)
(* a field element F is the set of exponents of its polynomial (a subset   *)
(* of 0..127).  Both keep their full width.                                *)
(***************************************************************************)
EXTENDS Integers, Sequences, FiniteSets, TLC

\* ------------------------------------------------------------------------
\* Bounds of the model (inputs are drawn from pools cut to these sizes)
\* ------------------------------------------------------------------------
NumLimbVals == 4    \* limb patterns tried for each limb of the gadget operand a
NumJunk == 3        \* out-of-contract patterns tried for x (bits 8..63 of lo, hi)
NumSeeds == 3       \* seeds tried for the generator that samples A
NumBytes == 3       \* byte values tried for each image byte of a session
NumI == 3           \* public operands tried for each I[j] of the circuit check
MaxN == 2           \* longest image (columns of A)
MRows == 1          \* rows of A and H (m of lattice_circuit, 128 there)

\* ------------------------------------------------------------------------
\* Words and the gates of the circuit builder
\* ------------------------------------------------------------------------
WordBits == 64
ByteMax == 255
Bits == 0 .. (WordBits - 1)
ZeroWord == {}
AllOne == Bits                       \* Word::ALL_ONE
Red87 == {0, 1, 2, 7}                \* add_constant_64(0x87)

bxor(a, c) == (a \ c) \cup (c \ a)
band(a, c) == a \cap c
shl(a, n) == {i + n : i \in {j \in a : j + n < WordBits}}
shr(a, n) == {i - n : i \in {j \in a : j >= n}}
rotl(a, n) == {(i + n) % WordBits : i \in a}
extract_byte(a, j) == {i - 8 * j : i \in {t \in a : t >= 8 * j /\ t < 8 * j + 8}}

\* select taking any set bit of cond as true
select_anybit(cond, t, f) == IF cond # {} THEN t ELSE f
\* the builder's select(cond, t, f): the MSB of cond is the truth signal
select(cond, t, f) == IF (WordBits - 1) \in cond THEN t ELSE f

u128_xor(a, c) == [lo |-> bxor(a.lo, c.lo), hi |-> bxor(a.hi, c.hi)]

\* ------------------------------------------------------------------------
\* The gadget
\* ------------------------------------------------------------------------
\* condition wire of mul_x
mul_x_cond(a) == rotl(a.hi, 0)

\* mul_x without the carry from lo into hi
mul_x_nocarry(a) ==
    LET lo_sh == shl(a.lo, 1)
        hi_sh == shl(a.hi, 1)
        mask == select(mul_x_cond(a), AllOne, ZeroWord)
    IN  [lo |-> bxor(lo_sh, band(Red87, mask)), hi |-> hi_sh]
\* shift left by one over both limbs, then 0x87 into lo under the mask
mul_x(a) ==
    LET lo_sh == shl(a.lo, 1)
        carry == shr(a.lo, WordBits - 1)
        hi_sh == bxor(shl(a.hi, 1), carry)
        cond == mul_x_cond(a)
        mask == select(cond, AllOne, ZeroWord)
        red_masked == band(Red87, mask)
    IN  [lo |-> bxor(lo_sh, red_masked), hi |-> hi_sh]

cxor(acc, x, cond_msb) ==
    LET m == select(cond_msb, AllOne, ZeroWord)
        xlo == band(x.lo, m)
        xhi == band(x.hi, m)
    IN  [lo |-> bxor(acc.lo, xlo), hi |-> bxor(acc.hi, xhi)]

\* byte0 taken from the wrong limb
byte0_of_hi(x) == extract_byte(x.hi, 0)
\* byte0 of gfmul_by_public_byte
byte0_of(x) == extract_byte(x.lo, 0)

\* rotation off by one
loop_cond_off(byte0, k) == rotl(byte0, 62 - k)
\* condition wire of iteration k: bit k of byte0 rotated into the MSB
loop_cond(byte0, k) == rotl(byte0, 63 - k)

ZeroU128 == [lo |-> ZeroWord, hi |-> ZeroWord]

RECURSIVE gfmul_loop(_, _, _, _)
gfmul_loop(byte0, acc, p, k) ==
    IF k = 8 THEN acc
    ELSE gfmul_loop(byte0, cxor(acc, p, loop_cond(byte0, k)), mul_x(p), k + 1)

gfmul_by_public_byte(a, x) == gfmul_loop(byte0_of(x), ZeroU128, a, 0)

\* ------------------------------------------------------------------------
\* Host side: field elements, conversions, reference multiplication
\* ------------------------------------------------------------------------
FieldBits == 128
Exps == 0 .. (FieldBits - 1)

\* split128(v) = (v as u64, (v >> 64) as u64)
split128(v) ==
    [lo |-> {i \in v : i < WordBits},
     hi |-> {i - WordBits : i \in {j \in v : j >= WordBits}}]
\* the u128 a limb pair stands for
join128(w) == w.lo \cup {i + WordBits : i \in w.hi}

RECURSIVE Pow2(_)
Pow2(k) == IF k = 0 THEN 1 ELSE 2 * Pow2(k - 1)
\* F::from(b as u128) and Word(b as u64): the bits of the byte b
ByteBits(b) == {k \in 0 .. 7 : (b \div Pow2(k)) % 2 = 1}

\* F multiplication: schoolbook polynomial product over GF(2) (one shifted
\* copy of a for every term of c), then the part of degree >= 128 folded down
\* by x^128 = x^7 + x^2 + x + 1 until none is left
RECURSIVE ClMulTerms(_, _)
ClMulTerms(a, c) ==
    IF c = {} THEN {}
    ELSE LET t == CHOOSE e \in c : TRUE
         IN  bxor({i + t : i \in a}, ClMulTerms(a, c \ {t}))
ClMul(a, c) == IF Cardinality(c) <= Cardinality(a) THEN ClMulTerms(a, c) ELSE ClMulTerms(c, a)
RECURSIVE Reduce(_)
Reduce(s) ==
    LET high == {e - FieldBits : e \in {f \in s : f >= FieldBits}}
    IN  IF high = {} THEN s
        ELSE Reduce(bxor(s \cap Exps, ClMulTerms(high, {0, 1, 2, 7})))
FMul(a, c) == Reduce(ClMul(a, c))
FAdd(a, c) == bxor(a, c)

\* ------------------------------------------------------------------------
\* Input pools
\* ------------------------------------------------------------------------
LimbPool == << {63}, {0, 63}, Bits, {}, {1, 62}, {7, 56, 63} >>
LimbVals == {LimbPool[i] : i \in 1 .. NumLimbVals}
\* <<bits 8..63 of x.lo, x.hi>>
JunkPool == << <<{}, {}>>, <<{8, 63}, {}>>, <<{9, 40}, {0, 63}>>, <<{}, Bits>>, <<{62}, {5}>> >>
JunkVals == {JunkPool[i] : i \in 1 .. NumJunk}
Bytes == 0 .. ByteMax

\* ------------------------------------------------------------------------
\* State
\* ------------------------------------------------------------------------
VARIABLES
    ga,       \* gadget operand a
    gx,       \* gadget operand x
    gk,       \* loop counter k of gfmul_by_public_byte
    gacc,     \* acc
    gp,       \* p
    gpIn,     \* operand of the last mul_x call
    gconds,   \* condition wires handed to select in the last iteration: <<site, wire, bit>>
    gret,     \* returned value
    gpc,      \* "loop" until the gadget has returned, then "returned"
    gb,       \* the byte the low 8 bits of x.lo were built from
    pc,       \* position in lattice_circuit / main
    phase,    \* Unbuilt, Built, WitnessFilled, LocallyVerified, Proved, Verified
    trace,    \* the phases entered, in order
    img,      \* image_bytes
    A,        \* secret matrix, A[i][j] a field element
    Ivec,     \* public vector I
    H,        \* public vector H
    row,      \* loop index i of the constraint loop
    asserts,  \* assert_eq constraints recorded by the builder: <<"H", i, 0, limb>>
    built,    \* the constraints frozen by builder.build()
    vec,      \* filler / witness_vec: wire -> Word
    public_words, \* witness_vec.public().to_vec()
    verifier_in,  \* the values handed to Verifier.verify
    steps,    \* the fallible steps executed, in order
    failed,   \* the step that failed, or "none"
    result,   \* "running", "Ok" or "Err": what lattice_circuit returned
    stdout,   \* lines printed (println and eprintln)
    flip,     \* the bit of the supplied H that was flipped, or <<>>
    verdict,  \* outcome of the local constraint check
    mainret   \* what main returned

gvars == <<ga, gx, gk, gacc, gp, gpIn, gconds, gret, gpc, gb>>
svars == <<pc, phase, trace, img, A, Ivec, H, row, asserts, built, vec,
           public_words, verifier_in, steps, failed, result, stdout, flip,
           verdict, mainret>>
vars == <<gvars, svars>>

GadgetIdle ==
    /\ ga = ZeroU128 /\ gx = ZeroU128 /\ gk = 0 /\ gacc = ZeroU128
    /\ gp = ZeroU128 /\ gpIn = ZeroU128 /\ gconds = {} /\ gret = ZeroU128
    /\ gpc = "idle" /\ gb = 0

SessionIdle ==
    /\ pc = "idle" /\ phase = "Unbuilt" /\ trace = <<>> /\ img = <<>>
    /\ A = <<>> /\ Ivec = <<>> /\ H = <<>> /\ row = 0 /\ asserts = {}
    /\ built = {} /\ vec = <<>> /\ public_words = <<>> /\ verifier_in = <<>>
    /\ steps = <<>> /\ failed = "none" /\ result = "running" /\ stdout = <<>>
    /\ flip = <<>> /\ verdict = "none" /\ mainret = "running"

\* ------------------------------------------------------------------------
\* SpecGadget: gfmul_by_public_byte applied to operands from the pools
\* ------------------------------------------------------------------------
InitGadget ==
    /\ \E alo \in LimbVals, ahi \in LimbVals : ga = [lo |-> alo, hi |-> ahi]
    /\ gb \in Bytes
    /\ \E j \in JunkVals : gx = [lo |-> ByteBits(gb) \cup j[1], hi |-> j[2]]
    /\ gk = 0
    /\ gacc = ZeroU128
    /\ gp = ga
    /\ gpIn = ga
    /\ gconds = {}
    /\ gret = ZeroU128
    /\ gpc = "loop"
    /\ SessionIdle

\* one iteration of the loop: acc = cxor(acc, p, cond); p = mul_x(p)
GLoopStep ==
    /\ gpc = "loop"
    /\ gk < 8
    /\ LET byte0 == byte0_of(gx)
           cond == loop_cond(byte0, gk)
       IN  /\ gacc' = cxor(gacc, gp, cond)
           /\ gconds' = {<<"cxor", cond, gk>>, <<"mul_x", mul_x_cond(gp), 63>>}
    /\ gpIn' = gp
    /\ gp' = mul_x(gp)
    /\ gk' = gk + 1
    /\ UNCHANGED <<ga, gx, gret, gpc, gb, svars>>

GReturn ==
    /\ gpc = "loop"
    /\ gk = 8
    /\ gret' = gacc
    /\ gpc' = "returned"
    /\ UNCHANGED <<ga, gx, gk, gacc, gp, gpIn, gconds, gb, svars>>

NextGadget == GLoopStep \/ GReturn
SpecGadget == InitGadget /\ [][NextGadget]_vars

\* ------------------------------------------------------------------------
\* Properties of the gadget
\* ------------------------------------------------------------------------
XContract == gx.hi = ZeroWord /\ gx.lo = ByteBits(gb)

\* C1: with x.lo = b and x.hi = 0, the value gfmul_by_public_byte returns
\* after its 8 iterations is the field product of a and the polynomial of
\* the byte b, in both limbs.
C1_ByteMultiply ==
    (gpc = "returned" /\ XContract) =>
        /\ join128(gret) = FMul(join128(ga), ByteBits(gb))
        /\ gret = split128(FMul(join128(ga), ByteBits(gb)))
C1_Witness ==
    /\ gpc = "returned" /\ XContract /\ gk = 8
    /\ gb = ByteMax /\ 63 \in ga.hi /\ 63 \in ga.lo
    /\ gret # ZeroU128 /\ gret # ga

\* C2: mul_x(a) is the field product of a by the monomial x: a shift left by
\* one over both limbs, bit 63 of lo carried into bit 0 of hi, and 0x87 XORed
\* into lo exactly when bit 63 of the pre-shift hi was set.
C2_MulX ==
    gk > 0 =>
        /\ join128(gp) = FMul(join128(gpIn), {1})
        /\ gp.hi = {i + 1 : i \in gpIn.hi \ {63}}
                      \cup (IF 63 \in gpIn.lo THEN {0} ELSE {})
        /\ gp.lo = bxor({i + 1 : i \in gpIn.lo \ {63}},
                        IF 63 \in gpIn.hi THEN {0, 1, 2, 7} ELSE {})
C2_Witness ==
    /\ gk > 0 /\ 63 \in gpIn.hi /\ 63 \in gpIn.lo
    /\ 0 \in gp.hi /\ gp.lo \cap {0, 1, 2, 7} # {}

\* C9: the returned value depends only on a and on the low 8 bits of x.lo:
\* every x' with the same low byte, whatever its hi limb and bits 8..63 of
\* its lo limb, gives the same result for the same a.
C9_LowByteOnly ==
    gpc = "returned" =>
        \A j \in JunkVals :
            gfmul_by_public_byte(ga, [lo |-> byte0_of(gx) \cup j[1], hi |-> j[2]]) = gret
C9_Witness ==
    /\ gpc = "returned" /\ gret # ZeroU128
    /\ gx.hi # ZeroWord /\ gx.lo \ (0 .. 7) # {} /\ gx.lo \cap (0 .. 7) # {}

\* the bit of the operands a condition wire <<site, wire, bit>> stands for
CondSource(c) ==
    IF c[1] = "cxor" THEN c[3] \in byte0_of(gx) ELSE 63 \in gpIn.hi

\* C10 as stated: every condition wire handed to the masking primitive has
\* only its top bit possibly set.
C10_Original == \A c \in gconds : c[2] \subseteq {63}

\* C10 amended: the mask is all-ones exactly when the top bit of the
\* condition wire is set, the top bit is bit k of byte0 (cxor) or bit 63 of
\* a.hi (mul_x), and the other bits of the wire are those of the rotated
\* operand, not necessarily zero.
C10_MsbOnly ==
    \A c \in gconds :
        /\ select(c[2], AllOne, ZeroWord) = (IF CondSource(c) THEN AllOne ELSE ZeroWord)
        /\ (63 \in c[2]) <=> CondSource(c)
        /\ c[1] = "cxor" => c[2] = {(i + 63 - c[3]) % 64 : i \in byte0_of(gx)}
        /\ c[1] = "mul_x" => c[2] = gpIn.hi
C10_Witness ==
    \E c \in gconds, d \in gconds :
        /\ c[1] = "cxor" /\ 63 \in c[2] /\ c[2] # {63}
        /\ d[1] = "mul_x" /\ 63 \notin d[2] /\ d[2] # {}

\* ------------------------------------------------------------------------
\* The matrix-hash circuit: wires, constraints, evaluation
\* ------------------------------------------------------------------------
FieldPool == << {}, {0, 127}, Exps, {63, 64}, {1}, {5, 120} >>
BytePool == << 255, 1, 128, 0, 83 >>
ByteVals == {BytePool[i] : i \in 1 .. NumBytes}
\* public operands: two bytes, then operands outside the gadget's contract
IPool == << ByteBits(255), {0, 64}, ByteBits(2), {1, 8}, {7, 127} >>
IVals == {IPool[i] : i \in 1 .. NumI}
Seeds == 0 .. (NumSeeds - 1)
Rows == 1 .. MRows
Limbs == {"lo", "hi"}

\* rng.random::<F>() for each entry, row by row
SampleA(seed, n) ==
    [i \in Rows |->
        [j \in 1 .. n |-> FieldPool[((seed + (i - 1) * n + (j - 1)) % Len(FieldPool)) + 1]]]

\* I: bytes -> field elements
LiftI(bytes) == [j \in 1 .. Len(bytes) |-> ByteBits(bytes[j])]

\* H[i] = sum over j of A[i][j] * I[j]
RECURSIVE HostRow(_, _, _)
HostRow(Ai, Iv, j) ==
    IF j = 0 THEN {} ELSE FAdd(HostRow(Ai, Iv, j - 1), FMul(Ai[j], Iv[j]))
HostH(Am, Iv) == [i \in Rows |-> HostRow(Am[i], Iv, Len(Iv))]

\* add_witness for A, add_inout for I and H
WireKind(w) ==
    IF w[1] = "A" THEN "witness"
    ELSE IF w[1] \in {"I", "H"} THEN "inout"
    ELSE IF w[1] = "const" THEN "const"
    ELSE "internal"
AWires(n) == {<<"A", i, j, l>> : i \in Rows, j \in 1 .. n, l \in Limbs}
IWires(n) == {<<"I", 0, j, l>> : j \in 1 .. n, l \in Limbs}
HWires == {<<"H", i, 0, l>> : i \in Rows, l \in Limbs}
ConstWires == {<<"const", 0, 0, "zero">>, <<"const", 0, 0, "all1">>, <<"const", 0, 0, "red">>}
AccWires == {<<"acc", i, 0, l>> : i \in Rows, l \in Limbs}

\* the row asserted on its low limb only
RowAsserts_lo_only(i) == {<<"H", i, 0, "lo">>}
\* assert_eq("H[i].lo", acc.lo, h.lo); assert_eq("H[i].hi", acc.hi, h.hi)
RowAsserts(i) == {<<"H", i, 0, "lo">>, <<"H", i, 0, "hi">>}

\* the filler after the assignments of A, I and H
Fill(Am, xw, Hv, n) ==
    [w \in AWires(n) \cup IWires(n) \cup HWires |->
        IF w[1] = "A" THEN split128(Am[w[2]][w[3]])[w[4]]
        ELSE IF w[1] = "I" THEN xw[w[3]][w[4]]
        ELSE split128(Hv[w[2]])[w[4]]]
\* I wires of a session: lo = byte, hi = 0
ByteWires(bytes) == [j \in 1 .. Len(bytes) |-> [lo |-> ByteBits(bytes[j]), hi |-> ZeroWord]]

U128At(v, k, i, j) == [lo |-> v[<<k, i, j, "lo">>], hi |-> v[<<k, i, j, "hi">>]]

\* acc of row i after the columns 1..j
RECURSIVE EvalRow(_, _, _)
EvalRow(v, i, j) ==
    IF j = 0 THEN ZeroU128
    ELSE u128_xor(EvalRow(v, i, j - 1),
                  gfmul_by_public_byte(U128At(v, "A", i, j), U128At(v, "I", 0, j)))

\* populate_wire_witness: constants and gate outputs derived from the inputs
Populate(v, n) ==
    LET accs == [i \in Rows |-> EvalRow(v, i, n)]
    IN  [w \in DOMAIN v \cup ConstWires \cup AccWires |->
            IF w \in DOMAIN v THEN v[w]
            ELSE IF w[1] = "const"
                 THEN (IF w[4] = "zero" THEN ZeroWord
                       ELSE IF w[4] = "all1" THEN AllOne ELSE Red87)
            ELSE accs[w[2]][w[4]]]

\* verify_constraints: every asserted equality holds
ConstraintsHold(cs, v) == \A c \in cs : v[<<"acc", c[2], 0, c[4]>>] = v[c]

\* the whole value vector instead of its public section
public_all(v) == v
\* witness_vec.public(): the constant and inout wires
public(v) == [w \in {u \in DOMAIN v : WireKind(u) \in {"const", "inout"}} |-> v[w]]

Phases == <<"Unbuilt", "Built", "WitnessFilled", "LocallyVerified", "Proved", "Verified">>

\* ------------------------------------------------------------------------
\* Spec: one session of main / lattice_circuit
\* ------------------------------------------------------------------------
Images == UNION {[1 .. n -> ByteVals] : n \in 0 .. MaxN}

Init ==
    /\ GadgetIdle
    /\ pc = "host" /\ phase = "Unbuilt" /\ trace = <<"Unbuilt">>
    /\ img \in Images
    /\ A = <<>> /\ Ivec = <<>> /\ H = <<>> /\ row = 0 /\ asserts = {}
    /\ built = {} /\ vec = <<>> /\ public_words = <<>> /\ verifier_in = <<>>
    /\ steps = <<>> /\ failed = "none" /\ result = "running" /\ stdout = <<>>
    /\ flip = <<>> /\ verdict = "none" /\ mainret = "running"

\* sample A, lift I, compute H
HostCompute ==
    /\ pc = "host"
    /\ \E seed \in Seeds :
        LET a == SampleA(seed, Len(img))
            iv == LiftI(img)
        IN  /\ A' = a
            /\ Ivec' = iv
            /\ H' = HostH(a, iv)
    /\ stdout' = Append(stdout, "building circuit")
    /\ row' = 1
    /\ pc' = "constrain"
    /\ UNCHANGED <<gvars, phase, trace, img, asserts, built, vec, public_words,
                   verifier_in, steps, failed, result, flip, verdict, mainret>>

\* one row of the constraint loop
AssertRow ==
    /\ pc = "constrain"
    /\ row <= MRows
    /\ asserts' = asserts \cup RowAsserts(row)
    /\ row' = row + 1
    /\ UNCHANGED <<gvars, pc, phase, trace, img, A, Ivec, H, built, vec, public_words,
                   verifier_in, steps, failed, result, stdout, flip, verdict, mainret>>

\* builder.build()
Build ==
    /\ pc = "constrain"
    /\ row > MRows
    /\ built' = asserts
    /\ phase' = "Built"
    /\ trace' = Append(trace, "Built")
    /\ stdout' = Append(stdout, "circuit built")
    /\ pc' = "fill"
    /\ UNCHANGED <<gvars, img, A, Ivec, H, row, asserts, vec, public_words,
                   verifier_in, steps, failed, result, flip, verdict, mainret>>

\* fill the wires of A, I and H, then populate_wire_witness(...)?
FillPopulate ==
    /\ pc = "fill"
    /\ steps' = Append(steps, "populate_wire_witness")
    /\ \E ok \in BOOLEAN :
        IF ok
        THEN /\ vec' = Populate(Fill(A, ByteWires(img), H, Len(img)), Len(img))
             /\ phase' = "WitnessFilled"
             /\ trace' = Append(trace, "WitnessFilled")
             /\ pc' = "check"
             /\ UNCHANGED <<failed, result>>
        ELSE /\ failed' = "populate_wire_witness"
             /\ result' = "Err"
             /\ pc' = "returned"
             /\ UNCHANGED <<vec, phase, trace>>
    /\ UNCHANGED <<gvars, img, A, Ivec, H, row, asserts, built, public_words,
                   verifier_in, stdout, flip, verdict, mainret>>

\* the local check left out
VerifyConstraints_skipped ==
    /\ pc = "check"
    /\ pc' = "setup_verifier"
    /\ UNCHANGED <<gvars, phase, trace, img, A, Ivec, H, row, asserts, built, vec,
                   public_words, verifier_in, steps, failed, result, stdout, flip,
                   verdict, mainret>>
\* verify_constraints(cs, &witness_vec)?
VerifyConstraints ==
    /\ pc = "check"
    /\ steps' = Append(steps, "verify_constraints")
    /\ IF ConstraintsHold(built, vec)
       THEN /\ verdict' = "Ok"
            /\ phase' = "LocallyVerified"
            /\ trace' = Append(trace, "LocallyVerified")
            /\ stdout' = Append(stdout, "constraint verified")
            /\ pc' = "setup_verifier"
            /\ UNCHANGED <<failed, result>>
       ELSE /\ verdict' = "Err"
            /\ failed' = "verify_constraints"
            /\ result' = "Err"
            /\ pc' = "returned"
            /\ UNCHANGED <<phase, trace, stdout>>
    /\ UNCHANGED <<gvars, img, A, Ivec, H, row, asserts, built, vec, public_words,
                   verifier_in, flip, mainret>>

\* Verifier::setup(...)?
SetupVerifier ==
    /\ pc = "setup_verifier"
    /\ steps' = Append(steps, "verifier_setup")
    /\ \E ok \in BOOLEAN :
        IF ok
        THEN /\ pc' = "setup_prover"
             /\ UNCHANGED <<failed, result>>
        ELSE /\ failed' = "verifier_setup"
             /\ result' = "Err"
             /\ pc' = "returned"
    /\ UNCHANGED <<gvars, phase, trace, img, A, Ivec, H, row, asserts, built, vec,
                   public_words, verifier_in, stdout, flip, verdict, mainret>>

\* Prover::setup(...)?
SetupProver ==
    /\ pc = "setup_prover"
    /\ steps' = Append(steps, "prover_setup")
    /\ \E ok \in BOOLEAN :
        IF ok
        THEN /\ pc' = "prove"
             /\ UNCHANGED <<failed, result>>
        ELSE /\ failed' = "prover_setup"
             /\ result' = "Err"
             /\ pc' = "returned"
    /\ UNCHANGED <<gvars, phase, trace, img, A, Ivec, H, row, asserts, built, vec,
                   public_words, verifier_in, stdout, flip, verdict, mainret>>

\* public_words = witness_vec.public(); prover.prove(witness_vec, ..)?; finalize
Prove ==
    /\ pc = "prove"
    /\ public_words' = public(vec)
    /\ vec' = <<>>
    /\ steps' = Append(steps, "prove")
    /\ \E ok \in BOOLEAN :
        IF ok
        THEN /\ phase' = "Proved"
             /\ trace' = Append(trace, "Proved")
             /\ stdout' = Append(stdout, "Proof time")
             /\ pc' = "verify"
             /\ UNCHANGED <<failed, result>>
        ELSE /\ failed' = "prove"
             /\ result' = "Err"
             /\ pc' = "returned"
             /\ UNCHANGED <<phase, trace, stdout>>
    /\ UNCHANGED <<gvars, img, A, Ivec, H, row, asserts, built, verifier_in,
                   flip, verdict, mainret>>

\* verify with its error dropped instead of propagated
Verify_swallowed ==
    /\ pc = "verify"
    /\ verifier_in' = public_words
    /\ steps' = Append(steps, "verify")
    /\ \E ok \in BOOLEAN :
        IF ok
        THEN /\ pc' = "finalize"
             /\ UNCHANGED <<failed, result>>
        ELSE /\ failed' = "verify"
             /\ pc' = "finalize"
             /\ UNCHANGED result
    /\ UNCHANGED <<gvars, phase, trace, img, A, Ivec, H, row, asserts, built, vec,
                   public_words, stdout, flip, verdict, mainret>>
\* verifier.verify(&public_words, ..)?
Verify ==
    /\ pc = "verify"
    /\ verifier_in' = public_words
    /\ steps' = Append(steps, "verify")
    /\ \E ok \in BOOLEAN :
        IF ok
        THEN /\ pc' = "finalize"
             /\ UNCHANGED <<failed, result>>
        ELSE /\ failed' = "verify"
             /\ result' = "Err"
             /\ pc' = "returned"
    /\ UNCHANGED <<gvars, phase, trace, img, A, Ivec, H, row, asserts, built, vec,
                   public_words, stdout, flip, verdict, mainret>>

\* verifier_tx.finalize()?; Ok(())
VerifierFinalize ==
    /\ pc = "finalize"
    /\ steps' = Append(steps, "finalize")
    /\ \E ok \in BOOLEAN :
        IF ok
        THEN /\ phase' = "Verified"
             /\ trace' = Append(trace, "Verified")
             /\ stdout' = Append(Append(stdout, "Verify time"),
                                 "proof successfully verified")
             /\ result' = "Ok"
             /\ pc' = "returned"
             /\ UNCHANGED failed
        ELSE /\ failed' = "finalize"
             /\ result' = "Err"
             /\ pc' = "returned"
             /\ UNCHANGED <<phase, trace, stdout>>
    /\ UNCHANGED <<gvars, img, A, Ivec, H, row, asserts, built, vec, public_words,
                   verifier_in, flip, verdict, mainret>>

\* main: lattice_circuit(&image)?; Ok(())
MainReturn ==
    /\ pc = "returned"
    /\ mainret' = result
    /\ pc' = "exited"
    /\ UNCHANGED <<gvars, phase, trace, img, A, Ivec, H, row, asserts, built, vec,
                   public_words, verifier_in, steps, failed, result, stdout, flip, verdict>>

Next ==
    \/ HostCompute
    \/ AssertRow
    \/ Build
    \/ FillPopulate
    \/ VerifyConstraints
    \/ SetupVerifier
    \/ SetupProver
    \/ Prove
    \/ Verify
    \/ VerifierFinalize
    \/ MainReturn
Spec == Init /\ [][Next]_vars

\* ------------------------------------------------------------------------
\* Properties of the session
\* ------------------------------------------------------------------------
Ran(step) == \E k \in 1 .. Len(steps) : steps[k] = step

\* C5: the session moves through Unbuilt, Built, WitnessFilled,
\* LocallyVerified, Proved, Verified in that order, each entered once, none
\* skipped, none re-entered; the constraints are those frozen at Built; Proved
\* is only reached after LocallyVerified.
C5_PhaseOrder ==
    /\ Len(trace) >= 1 /\ Len(trace) <= Len(Phases)
    /\ \A k \in 1 .. Len(trace) : trace[k] = Phases[k]
    /\ phase = trace[Len(trace)]
    /\ phase # "Unbuilt" => asserts = built
    /\ phase \in {"Proved", "Verified"} => (Ran("verify_constraints") /\ verdict = "Ok")
C5_Witness ==
    /\ phase = "Verified" /\ trace = Phases /\ pc = "exited"
    /\ Cardinality(built) = 2 * MRows /\ Len(img) = MaxN

\* C6: the values handed to Verifier.verify are the public wire values only
\* (constants, I and H); no wire of A is among them, and nothing printed
\* carries A.
C6_PublicOnly ==
    /\ Ran("verify") =>
        /\ DOMAIN verifier_in = ConstWires \cup IWires(Len(img)) \cup HWires
        /\ \A w \in DOMAIN verifier_in : WireKind(w) # "witness"
        /\ \A j \in 1 .. Len(img) :
            U128At(verifier_in, "I", 0, j) = [lo |-> ByteBits(img[j]), hi |-> ZeroWord]
        /\ \A i \in Rows : join128(U128At(verifier_in, "H", i, 0)) = H[i]
    /\ \A k \in 1 .. Len(stdout) :
        stdout[k] \in {"building circuit", "circuit built", "constraint verified",
                       "Proof time", "Verify time", "proof successfully verified"}
C6_Witness ==
    /\ Ran("verify") /\ Len(img) = MaxN /\ pc = "exited" /\ result = "Ok"
    /\ \E i \in Rows, j \in 1 .. Len(img) : A[i][j] # {} /\ H[i] # {}

\* C7: a failed step aborts the session there and reaches the caller as an
\* error: it is the last step executed, it ran once, and neither
\* lattice_circuit nor main reports Ok.
C7_FailureAborts ==
    /\ failed # "none" =>
        /\ result = "Err"
        /\ pc \in {"returned", "exited"}
        /\ steps # <<>> /\ steps[Len(steps)] = failed
        /\ Cardinality({k \in 1 .. Len(steps) : steps[k] = failed}) = 1
        /\ \A k \in 1 .. Len(stdout) : stdout[k] # "proof successfully verified"
    /\ result = "Ok" => failed = "none"
    /\ pc = "exited" => mainret = result
    /\ pc # "exited" => mainret = "running"
C7_Witness ==
    /\ failed = "verify" /\ pc = "exited" /\ mainret = "Err"
    /\ phase = "Proved" /\ Len(steps) = 6

\* ------------------------------------------------------------------------
\* SpecCircuit: the constraint system of lattice_circuit, populated with
\* supplied values of A, I and H and checked locally
\* ------------------------------------------------------------------------
Flips == {<<i, l, e>> : i \in Rows, l \in Limbs, e \in Bits}
Operands == UNION {[1 .. n -> IVals] : n \in 0 .. MaxN}

InitCircuit ==
    /\ GadgetIdle
    /\ pc = "c_fill" /\ phase = "Built" /\ trace = <<>> /\ img = <<>>
    /\ Ivec \in Operands
    /\ \E seed \in Seeds : A = SampleA(seed, Len(Ivec))
    /\ H = HostH(A, Ivec)
    /\ row = MRows + 1
    /\ asserts = UNION {RowAsserts(i) : i \in Rows}
    /\ built = asserts
    /\ vec = <<>> /\ public_words = <<>> /\ verifier_in = <<>>
    /\ steps = <<>> /\ failed = "none" /\ result = "running" /\ stdout = <<>>
    /\ flip = <<>> /\ verdict = "none" /\ mainret = "running"

\* the filler assignments, H as computed by the host
CFillHonest ==
    /\ pc = "c_fill"
    /\ flip' = <<>>
    /\ vec' = Fill(A, [j \in 1 .. Len(Ivec) |-> split128(Ivec[j])], H, Len(Ivec))
    /\ pc' = "c_populate"
    /\ UNCHANGED <<gvars, phase, trace, img, A, Ivec, H, row, asserts, built,
                   public_words, verifier_in, steps, failed, result, stdout,
                   verdict, mainret>>

\* the filler assignments, one bit of one limb of the supplied H flipped
CFillFlipped ==
    /\ pc = "c_fill"
    /\ \E f \in Flips :
        /\ flip' = f
        /\ vec' = [Fill(A, [j \in 1 .. Len(Ivec) |-> split128(Ivec[j])], H, Len(Ivec))
                     EXCEPT ![<<"H", f[1], 0, f[2]>>] = bxor(@, {f[3]})]
    /\ pc' = "c_populate"
    /\ UNCHANGED <<gvars, phase, trace, img, A, Ivec, H, row, asserts, built,
                   public_words, verifier_in, steps, failed, result, stdout,
                   verdict, mainret>>

\* populate_wire_witness
CPopulate ==
    /\ pc = "c_populate"
    /\ vec' = Populate(vec, Len(Ivec))
    /\ pc' = "c_check"
    /\ UNCHANGED <<gvars, phase, trace, img, A, Ivec, H, row, asserts, built,
                   public_words, verifier_in, steps, failed, result, stdout, flip,
                   verdict, mainret>>

\* verify_constraints
CVerify ==
    /\ pc = "c_check"
    /\ verdict' = IF ConstraintsHold(built, vec) THEN "Ok" ELSE "Err"
    /\ pc' = "c_done"
    /\ UNCHANGED <<gvars, phase, trace, img, A, Ivec, H, row, asserts, built, vec,
                   public_words, verifier_in, steps, failed, result, stdout, flip,
                   mainret>>

NextCircuit == CFillHonest \/ CFillFlipped \/ CPopulate \/ CVerify
SpecCircuit == InitCircuit /\ [][NextCircuit]_vars

\* ------------------------------------------------------------------------
\* Properties of the constraint system
\* ------------------------------------------------------------------------
\* I[j] is a lifted byte: hi = 0 and only the low 8 bits of lo may be set
IsByteOperand(v) == v \subseteq 0 .. 7
HiNonZero(v) == split128(v).hi # ZeroWord

\* C3: with H computed on the host and the wires populated honestly the
\* local constraint check succeeds, and with any single bit of any supplied
\* H[i] limb flipped it fails.
C3_Relation ==
    (pc = "c_done" /\ \A j \in 1 .. Len(Ivec) : IsByteOperand(Ivec[j])) =>
        (verdict = "Ok" <=> flip = <<>>)
C3_Witness ==
    /\ pc = "c_done" /\ Len(Ivec) = MaxN /\ verdict = "Err"
    /\ \A j \in 1 .. Len(Ivec) : IsByteOperand(Ivec[j])
    /\ flip # <<>> /\ flip[2] = "hi" /\ flip[3] = 63
    /\ \E i \in Rows : H[i] # {}

\* C8 as stated: an operand I[j] with a non-zero high limb makes the local
\* constraint check fail.
C8_Original ==
    (pc = "c_done" /\ \E j \in 1 .. Len(Ivec) : HiNonZero(Ivec[j])) => verdict = "Err"

\* C8 amended: the gadget ignores everything of I[j] but the low byte of its
\* lo limb, so the check succeeds exactly when every supplied H[i] is the sum
\* of the products of A[i][j] by that low byte, whatever the high limbs.
C8_LowByteDecides ==
    pc = "c_done" =>
        (verdict = "Ok" <=>
            \A i \in Rows :
                join128(U128At(vec, "H", i, 0)) =
                    HostRow(A[i], [j \in 1 .. Len(Ivec) |-> Ivec[j] \cap (0 .. 7)], Len(Ivec)))
C8_Witness ==
    /\ pc = "c_done" /\ flip = <<>> /\ verdict = "Err"
    /\ \E j \in 1 .. Len(Ivec) : HiNonZero(Ivec[j])

====
